---------------------------- MODULE Spec2Model ----------------------------
(***************************************************************************)
(* Model of the vocabulary build pipeline of build_vocabulary_db.py:       *)
(* the four source adapters, the lexical validity filter, the              *)
(* part-of-speech normalizer, the enrichment steps, the inclusion filter   *)
(* and the store writer (VocabularyBuilder.run and what it calls).         *)
(*                                                                         *)
(* Representation.  A word is a sequence of one-character strings, so that *)
(* lower(), strip(), len() and the regular expressions are computed        *)
(* character by character.  A raw part-of-speech string and the            *)
(* normalized one are sequences of lexical tokens (codes, numbers and the  *)
(* separators ":", "/", ","); data_sources is the sequence of its          *)
(* comma-separated identifiers.  A database NULL and the value 0 are both  *)
(* written 0 (the code reads every numeric column through "or 0" or a      *)
(* truth test).  The free-text columns phonetic, definition, translation   *)
(* and exchange are copied through by the code and are left out.           *)
(***************************************************************************)
EXTENDS Integers, Sequences, FiniteSets, TLC

VARIABLES
  pc,                \* the statement of run() (or of the function under study) reached
  error,             \* "" or the name of the method whose exception ended the run
  XLRD_AVAILABLE,    \* module flag, line 29/31
  WORDNET_AVAILABLE, \* module flag, line 45/47
  words,             \* self.words: form -> WordEntry
  coca_ranks,        \* self.coca_ranks: form -> rank
  cefr_data,         \* self.cefr_data: form -> averaged level, a fraction <<num, den>>
  gaokao_words,      \* self.gaokao_words
  stardict_rows,     \* the rows load_stardict fetched (cursor.fetchall(), line 308)
  db,                \* the rows of table words of the output store, in insertion order
  arg,               \* argument of the function under study
  ret                \* its return value

vars == <<pc, error, XLRD_AVAILABLE, WORDNET_AVAILABLE, words, coca_ranks,
          cefr_data, gaokao_words, stardict_rows, db, arg, ret>>

---------------------------------------------------------------------------
(* Bounds of the model. *)

MaxWordLen == 3
MaxPosParts == 3
MaxCocaRows == 3
MaxCefrRows == 1
MaxGaokaoRows == 2
MaxDictRows == 2
MaxLevelDen == 5

---------------------------------------------------------------------------
(* Characters and strings. *)

None == "None"

LowerAlpha ==
  <<"a","b","c","d","e","f","g","h","i","j","k","l","m",
    "n","o","p","q","r","s","t","u","v","w","x","y","z">>

UpperAlpha ==
  <<"A","B","C","D","E","F","G","H","I","J","K","L","M",
    "N","O","P","Q","R","S","T","U","V","W","X","Y","Z">>

LowerLetters == {LowerAlpha[i] : i \in DOMAIN LowerAlpha}
UpperLetters == {UpperAlpha[i] : i \in DOMAIN UpperAlpha}
Letters == LowerLetters \cup UpperLetters
Digits == {"0","1","2","3","4","5","6","7","8","9"}
\* the no-break space U+00A0, one character
NBSP == "\\xa0"
Whitespace == {" ", "\t", NBSP}

\* str.lower() on one character
LowerChar(c) ==
  IF c \in UpperLetters
    THEN LowerAlpha[CHOOSE i \in DOMAIN UpperAlpha : UpperAlpha[i] = c]
    ELSE c

\* str.lower()
Lower(s) == [i \in DOMAIN s |-> LowerChar(s[i])]

\* str.strip(): drop the leading and the trailing whitespace
RECURSIVE LStrip(_)
LStrip(s) ==
  IF s # <<>> /\ Head(s) \in Whitespace THEN LStrip(Tail(s)) ELSE s

RECURSIVE RStrip(_)
RStrip(s) ==
  IF s # <<>> /\ s[Len(s)] \in Whitespace
    THEN RStrip(SubSeq(s, 1, Len(s) - 1))
    ELSE s

Strip(s) == RStrip(LStrip(s))

\* all sequences over S of length 0..n
SeqUpTo(S, n) == UNION {[1..k -> S] : k \in 0..n}

\* the positions of a sequence holding x
Positions(s, x) == {i \in DOMAIN s : s[i] = x}

Range(s) == {s[i] : i \in DOMAIN s}

---------------------------------------------------------------------------
(* Lexical validity filter: VocabularyBuilder._is_valid_word. *)

ALLOWED_SINGLE_LETTERS == {<<"i">>, <<"a">>}

ALLOWED_TWO_LETTERS ==
  {
    <<"a","m">>, <<"a","n">>, <<"a","s">>, <<"a","t">>, <<"b","e">>,
    <<"b","y">>, <<"d","o">>, <<"g","o">>, <<"h","e">>, <<"i","f">>,
    <<"i","n">>, <<"i","s">>, <<"i","t">>, <<"m","e">>, <<"m","y">>,
    <<"n","o">>, <<"o","f">>, <<"o","n">>, <<"o","r">>, <<"s","o">>,
    <<"t","o">>, <<"u","p">>, <<"u","s">>, <<"w","e">>, <<"o","k">>,
    <<"o","x">>, <<"a","x">>
  }

STOPWORDS ==
  {
    <<"a","a">>, <<"a","a","a">>, <<"a","a","a","a">>, <<"b","b">>,
    <<"b","b","b">>, <<"c","c">>, <<"c","c","c">>, <<"d","d">>,
    <<"d","d","d">>, <<"e","e">>, <<"e","e","e">>, <<"f","f">>,
    <<"f","f","f">>, <<"g","g">>, <<"g","g","g">>, <<"h","h">>,
    <<"h","h","h">>, <<"i","i">>, <<"i","i","i">>, <<"j","j">>,
    <<"j","j","j">>, <<"k","k">>, <<"k","k","k">>, <<"l","l">>,
    <<"l","l","l">>, <<"m","m">>, <<"m","m","m">>, <<"n","n">>,
    <<"n","n","n">>, <<"o","o">>, <<"o","o","o">>, <<"p","p">>,
    <<"p","p","p">>, <<"q","q">>, <<"q","q","q">>, <<"r","r">>,
    <<"r","r","r">>, <<"s","s">>, <<"s","s","s">>, <<"t","t">>,
    <<"t","t","t">>, <<"u","u">>, <<"u","u","u">>, <<"v","v">>,
    <<"v","v","v">>, <<"w","w">>, <<"w","w","w">>, <<"x","x">>,
    <<"x","x","x">>, <<"y","y">>, <<"y","y","y">>, <<"z","z">>,
    <<"z","z","z">>, <<"z","z","z","z","z">>, <<"h","m","m","m">>,
    <<"h","m","m">>, <<"u","m","m">>, <<"u","m","m","m">>, <<"u","h","h">>,
    <<"u","h","h","h">>, <<"a","h","h">>, <<"a","h","h","h">>,
    <<"o","h","h">>, <<"o","h","h","h">>, <<"e","h","h">>,
    <<"s","h","h","h">>, <<"s","h","h">>, <<"p","s","s","t">>,
    <<"t","s","k">>, <<"u","g","h">>, <<"a","r","g","h">>,
    <<"b","l","a","h">>, <<"m","e","h">>, <<"d","u","h">>, <<"h","u","h">>,
    <<"n","a","h">>, <<"y","e","a","h">>, <<"y","e","p">>, <<"y","u","p">>,
    <<"n","o","p","e">>, <<"l","o","l">>, <<"o","m","g">>, <<"w","t","f">>,
    <<"b","t","w">>, <<"i","d","k">>, <<"i","m","o">>, <<"i","m","h","o">>,
    <<"f","y","i">>, <<"a","s","a","p">>, <<"b","r","b">>,
    <<"t","t","y","l">>, <<"r","o","f","l">>, <<"l","m","a","o">>,
    <<"s","m","h">>, <<"t","b","h">>, <<"t","h","o">>, <<"t","h","x">>,
    <<"p","l","s">>, <<"p","l","z">>, <<"c","u","z">>, <<"c","o","z">>,
    <<"g","o","n","n","a">>, <<"w","a","n","n","a">>, <<"g","o","t","t","a">>,
    <<"k","i","n","d","a">>, <<"s","o","r","t","a">>, <<"e","t","c">>,
    <<"v","s">>, <<"i","e">>, <<"e","g">>, <<"n","b">>, <<"p","s">>,
    <<"a","k","a">>, <<"d","i","y">>, <<"f","a","q">>
  }

\* EXCLUDE_PATTERNS[k], tried with re.match on a string without line breaks
MatchesPattern(k, s) ==
  CASE k = 1 -> s # <<>> /\ \A i \in DOMAIN s : s[i] \in Digits          \* ^[0-9]+$
    [] k = 2 -> s # <<>> /\ \A i \in DOMAIN s : s[i] \notin Letters      \* ^[^a-zA-Z]+$
    [] k = 3 -> Len(s) = 1 /\ s[1] \in Letters                           \* ^[a-zA-Z]$
    [] k = 4 -> \E i \in DOMAIN s : s[i] \in Digits                      \* .*\d+.*
    [] k = 5 -> Len(s) >= 2 /\ \A i \in DOMAIN s : s[i] = s[1]           \* ^(.)\1+$
    [] k = 6 -> Len(s) \in 1..2 /\ \A i \in DOMAIN s : s[i] \in LowerLetters  \* ^[a-z]{1,2}$

EXCLUDE_PATTERNS == 1..6

\* The filter without its stop-word test (lines 502-503 dropped).
IsValidWordNoStopwords(word) ==
  LET word_lower == Lower(word) IN
  IF Len(word) = 1 THEN word_lower \in ALLOWED_SINGLE_LETTERS
  ELSE IF Len(word) = 2 THEN word_lower \in ALLOWED_TWO_LETTERS
  ELSE ~ \E k \in EXCLUDE_PATTERNS : MatchesPattern(k, word_lower)

IsValidWord(word) ==
  LET word_lower == Lower(word) IN
  IF word_lower \in STOPWORDS THEN FALSE
  ELSE IF Len(word) = 1 THEN word_lower \in ALLOWED_SINGLE_LETTERS
  ELSE IF Len(word) = 2 THEN word_lower \in ALLOWED_TWO_LETTERS
  ELSE ~ \E k \in EXCLUDE_PATTERNS : MatchesPattern(k, word_lower)

---------------------------------------------------------------------------
(* Part-of-speech normalizer: VocabularyBuilder._normalize_pos. *)

\* POS_STANDARD, lines 52-90
POS_STANDARD ==
  <<"n">> :> <<"n">> @@
  <<"v">> :> <<"v">> @@
  <<"a">> :> <<"a","d","j">> @@
  <<"s">> :> <<"a","d","j">> @@
  <<"r">> :> <<"a","d","v">> @@
  <<"n","o","u","n">> :> <<"n">> @@
  <<"v","e","r","b">> :> <<"v">> @@
  <<"a","d","j">> :> <<"a","d","j">> @@
  <<"a","d","j","e","c","t","i","v","e">> :> <<"a","d","j">> @@
  <<"a","d","v">> :> <<"a","d","v">> @@
  <<"a","d","v","e","r","b">> :> <<"a","d","v">> @@
  <<"p","r","e","p">> :> <<"p","r","e","p">> @@
  <<"p","r","e","p","o","s","i","t","i","o","n">> :> <<"p","r","e","p">> @@
  <<"p","r","o","n">> :> <<"p","r","o","n">> @@
  <<"p","r","o","n","o","u","n">> :> <<"p","r","o","n">> @@
  <<"c","o","n","j">> :> <<"c","o","n","j">> @@
  <<"c","o","n","j","u","n","c","t","i","o","n">> :> <<"c","o","n","j">> @@
  <<"d","e","t">> :> <<"d","e","t">> @@
  <<"d","e","t","e","r","m","i","n","e","r">> :> <<"d","e","t">> @@
  <<"i","n","t","e","r","j">> :> <<"i","n","t","e","r","j">> @@
  <<"i","n","t","e","r","j","e","c","t","i","o","n">> :> <<"i","n","t","e","r","j">> @@
  <<"a","r","t">> :> <<"a","r","t">> @@
  <<"a","r","t","i","c","l","e">> :> <<"a","r","t">> @@
  <<"v","t">> :> <<"v">> @@
  <<"v","i">> :> <<"v">> @@
  <<"v","t",".">> :> <<"v">> @@
  <<"v","i",".">> :> <<"v">> @@
  <<"n",".">> :> <<"n">> @@
  <<"v",".">> :> <<"v">> @@
  <<"a","d","j",".">> :> <<"a","d","j">> @@
  <<"a","d","v",".">> :> <<"a","d","v">> @@
  <<"j">> :> <<"a","d","j">> @@
  <<"t">> :> <<"v">> @@
  <<"u">> :> <<"u","n","k","n","o","w","n">>

\* the table without the entries that map a tag to itself
PosStandardGetNoSelfMapping(code) ==
  IF code \in DOMAIN POS_STANDARD /\ POS_STANDARD[code] # code
    THEN POS_STANDARD[code]
    ELSE <<>>

\* POS_STANDARD.get(code, '')
PosStandardGet(code) ==
  IF code \in DOMAIN POS_STANDARD THEN POS_STANDARD[code] ELSE <<>>

S_unknown == <<"u","n","k","n","o","w","n">>

\* str.split(sep) for a one-character separator: the pieces, in order
RECURSIVE Split(_, _)
Split(s, sep) ==
  IF Positions(s, sep) = {} THEN <<s>>
  ELSE LET i == CHOOSE j \in Positions(s, sep) : \A k \in Positions(s, sep) : j <= k
       IN <<SubSeq(s, 1, i - 1)>> \o Split(SubSeq(s, i + 1, Len(s)), sep)

\* sep.join(list) for a one-character separator
RECURSIVE Join(_, _)
Join(list, sep) ==
  IF list = <<>> THEN <<>>
  ELSE IF Len(list) = 1 THEN list[1]
  ELSE list[1] \o <<sep>> \o Join(Tail(list), sep)

DigitValue(c) ==
  CASE c = "0" -> 0 [] c = "1" -> 1 [] c = "2" -> 2 [] c = "3" -> 3 [] c = "4" -> 4
    [] c = "5" -> 5 [] c = "6" -> 6 [] c = "7" -> 7 [] c = "8" -> 8 [] c = "9" -> 9

RECURSIVE DecimalValue(_)
DecimalValue(ds) ==
  IF ds = <<>> THEN 0
  ELSE 10 * DecimalValue(SubSeq(ds, 1, Len(ds) - 1)) + DigitValue(ds[Len(ds)])

\* int(s) on a string: surrounding whitespace, an optional sign, decimal digits
IntParses(s) ==
  LET t == Strip(s)
      d == IF t # <<>> /\ t[1] \in {"+", "-"} THEN Tail(t) ELSE t
  IN d # <<>> /\ \A i \in DOMAIN d : d[i] \in Digits

IntValue(s) ==
  LET t == Strip(s)
      neg == t # <<>> /\ t[1] = "-"
      d == IF t # <<>> /\ t[1] \in {"+", "-"} THEN Tail(t) ELSE t
  IN IF neg THEN 0 - DecimalValue(d) ELSE DecimalValue(d)

\* line 367: the unpacking of part.split(':') raises ValueError unless the
\* part holds exactly one ':'
NormalizePosRaises(raw_pos) ==
  /\ ":" \in Range(raw_pos)
  /\ \E p \in Range(Split(raw_pos, "/")) : Cardinality(Positions(p, ":")) >= 2

\* lines 365-376: the (std_pos, freq) pairs of the parts, in order
PosFreq(parts) ==
  LET pair(part) ==
        LET pieces == Split(part, ":")
            pos_code == Lower(Strip(pieces[1]))
            freq == IF IntParses(pieces[2]) THEN IntValue(pieces[2]) ELSE 0
        IN [pos |-> PosStandardGet(pos_code), freq |-> freq]
      keep(part) ==
        /\ ":" \in Range(part)
        /\ pair(part).pos # <<>>
        /\ pair(part).pos # S_unknown
  IN [i \in 1..Len(SelectSeq(parts, keep)) |-> pair(SelectSeq(parts, keep)[i])]

\* list.sort(key=lambda x: -x[1]): stable, descending frequency
RECURSIVE SortByFreqDesc(_)
SortByFreqDesc(s) ==
  IF s = <<>> THEN <<>>
  ELSE LET x == s[Len(s)]
           front == SortByFreqDesc(SubSeq(s, 1, Len(s) - 1))
           k == Cardinality({i \in DOMAIN front : front[i].freq >= x.freq})
       IN SubSeq(front, 1, k) \o <<x>> \o SubSeq(front, k + 1, Len(front))

\* lines 380-384: keep the first occurrence of each pos
RECURSIVE Dedup(_)
Dedup(s) ==
  IF s = <<>> THEN <<>>
  ELSE LET front == Dedup(SubSeq(s, 1, Len(s) - 1))
           x == s[Len(s)].pos
       IN IF x \in Range(front) THEN front ELSE Append(front, x)

\* the sort of line 379 done ascending instead of descending
RECURSIVE SortByFreqAsc(_)
SortByFreqAsc(s) ==
  IF s = <<>> THEN <<>>
  ELSE LET x == s[Len(s)]
           front == SortByFreqAsc(SubSeq(s, 1, Len(s) - 1))
           k == Cardinality({i \in DOMAIN front : front[i].freq <= x.freq})
       IN SubSeq(front, 1, k) \o <<x>> \o SubSeq(front, k + 1, Len(front))

PosListAscending(raw_pos) ==
  IF ":" \in Range(raw_pos)
    THEN Dedup(SortByFreqAsc(PosFreq(Split(raw_pos, "/"))))
    ELSE LET std_pos == PosStandardGet(Lower(Strip(raw_pos)))
         IN IF std_pos # <<>> /\ std_pos # S_unknown THEN <<std_pos>> ELSE <<>>

\* pos_list of _normalize_pos for a non-empty raw_pos that does not raise
PosList(raw_pos) ==
  IF ":" \in Range(raw_pos)
    THEN Dedup(SortByFreqDesc(PosFreq(Split(raw_pos, "/"))))
    ELSE LET std_pos == PosStandardGet(Lower(Strip(raw_pos)))
         IN IF std_pos # <<>> /\ std_pos # S_unknown THEN <<std_pos>> ELSE <<>>

\* _normalize_pos(raw_pos), for a raw_pos on which it returns
NormalizePos(raw_pos) ==
  IF raw_pos = <<>> THEN <<>> ELSE Join(PosList(raw_pos), ",")

---------------------------------------------------------------------------
(* String constants of the pipeline. *)

S_ecdict == <<"e","c","d","i","c","t">>
S_wordnet == <<"w","o","r","d","n","e","t">>
S_coca == <<"c","o","c","a">>
S_cefr == <<"c","e","f","r">>
S_gaokao == <<"g","a","o","k","a","o">>

S_take == <<"t","a","k","e">>
S_zeal == <<"z","e","a","l">>
S_ok == <<"o","k">>
S_lol == <<"l","o","l">>

\* "sub in s" on strings
Contains(s, sub) ==
  \E i \in 0..(Len(s) - Len(sub)) : SubSeq(s, i + 1, i + Len(sub)) = sub

\* the number of places where sub occurs in s
Occurrences(s, sub) ==
  Cardinality({i \in 0..(Len(s) - Len(sub)) : SubSeq(s, i + 1, i + Len(sub)) = sub})

EmptyMap == [x \in {} |-> x]

\* d[k] = v on a dict
Put(d, k, v) == [x \in DOMAIN d \cup {k} |-> IF x = k THEN v ELSE d[x]]

---------------------------------------------------------------------------
(* CEFR levels: cefr_from_float and CEFR_LEVEL_MAP.  A level is the        *)
(* fraction <<num, den>> with den > 0 (the AVG of integer levels).         *)

S_A1 == <<"A","1">>
S_A2 == <<"A","2">>
S_B1 == <<"B","1">>
S_B2 == <<"B","2">>
S_C1 == <<"C","1">>
S_C2 == <<"C","2">>

CEFR_LEVEL_MAP == <<S_A1, S_A2, S_B1, S_B2, S_C1, S_C2>>

\* round(level): to the nearest integer, an exact half to the even neighbour
Round(level) ==
  LET num == level[1]
      den == level[2]
      fl == num \div den
      rem == num % den
  IN IF 2 * rem < den THEN fl
     ELSE IF 2 * rem > den THEN fl + 1
     ELSE IF fl % 2 = 0 THEN fl ELSE fl + 1

\* the level cut to its integer part instead of rounded
CefrFromFloatTruncating(level) ==
  IF level[1] <= 0 THEN <<>>
  ELSE LET rounded == level[1] \div level[2]
       IN IF rounded \in DOMAIN CEFR_LEVEL_MAP THEN CEFR_LEVEL_MAP[rounded] ELSE <<>>

CefrFromFloat(level) ==
  IF level[1] <= 0 THEN <<>>
  ELSE LET rounded == Round(level)
       IN IF rounded \in DOMAIN CEFR_LEVEL_MAP THEN CEFR_LEVEL_MAP[rounded] ELSE <<>>

---------------------------------------------------------------------------
(* WordEntry and the dictionary adapter: load_stardict. *)

\* the tag words tested on lines 329-336
S_tag(t) ==
  CASE t = "zk" -> <<"z","k">>
    [] t = "gk" -> <<"g","k">>
    [] t = "cet4" -> <<"c","e","t","4">>
    [] t = "cet6" -> <<"c","e","t","6">>
    [] t = "ky" -> <<"k","y">>
    [] t = "toefl" -> <<"t","o","e","f","l">>
    [] t = "ielts" -> <<"i","e","l","t","s">>
    [] t = "gre" -> <<"g","r","e">>

\* str.split(): the maximal runs of non-whitespace characters
SplitWhitespace(s) ==
  LET blanks == [i \in DOMAIN s |-> IF s[i] \in Whitespace THEN " " ELSE s[i]]
  IN {p \in Range(Split(blanks, " ")) : p # <<>>}

\* lines 309-344, for one fetched row whose word passes the tests of line 311
EntryOfRow(word, row) ==
  LET tags == SplitWhitespace(row.tag) IN
  [ word |-> word,
    pos |-> row.pos,
    cefr_level |-> <<>>,
    collins_star |-> row.collins,
    coca_rank |-> row.frq,
    bnc_rank |-> row.bnc,
    is_oxford_3000 |-> (row.oxford # 0),
    is_cet4 |-> (S_tag("cet4") \in tags),
    is_cet6 |-> (S_tag("cet6") \in tags),
    is_zk |-> (S_tag("zk") \in tags),
    is_gk |-> (S_tag("gk") \in tags),
    is_ky |-> (S_tag("ky") \in tags),
    is_toefl |-> (S_tag("toefl") \in tags),
    is_ielts |-> (S_tag("ielts") \in tags),
    is_gre |-> (S_tag("gre") \in tags),
    data_sources |-> S_ecdict ]

\* line 309
RowWord(row) == Strip(Lower(row.word))

\* the entry stored under the raw spelling of the row, not the folded one
StardictEntriesRawWord(rows, table) ==
  LET RECURSIVE go(_, _)
      go(rs, t) ==
        IF rs = <<>> THEN t
        ELSE LET word == RowWord(Head(rs)) IN
             IF word = <<>> \/ ~IsValidWord(word) THEN go(Tail(rs), t)
             ELSE go(Tail(rs), Put(t, Head(rs).word, EntryOfRow(Head(rs).word, Head(rs))))
  IN go(rows, table)

\* the loop of lines 308-345 over the fetched rows
StardictEntries(rows, table) ==
  LET RECURSIVE go(_, _)
      go(rs, t) ==
        IF rs = <<>> THEN t
        ELSE LET word == RowWord(Head(rs)) IN
             IF word = <<>> \/ ~IsValidWord(word) THEN go(Tail(rs), t)
             ELSE go(Tail(rs), Put(t, word, EntryOfRow(word, Head(rs))))
  IN go(rows, table)

---------------------------------------------------------------------------
(* The other three adapters. *)

\* csv.DictReader fills the fields a short line lacks with None (line 211); a
\* row holding None for rank is written as a record without the field.
\* Line 215: int(None) raises TypeError, which the except clause of line 220
\* (ValueError, KeyError) does not catch.
CocaRowRaises(row) == "rank" \notin DOMAIN row

\* the index of the first row of rows that raises, 0 if none does
FirstRaisingRow(rows) ==
  IF \E i \in DOMAIN rows : CocaRowRaises(rows[i])
    THEN CHOOSE i \in DOMAIN rows :
           /\ CocaRowRaises(rows[i])
           /\ \A j \in 1..(i - 1) : ~CocaRowRaises(rows[j])
    ELSE 0

\* the loop of lines 212-221 over rows of the frequency table none of which
\* raises out of the loop
RECURSIVE CocaRanks(_, _)
CocaRanks(rows, ranks) ==
  IF rows = <<>> THEN ranks
  ELSE LET row == Head(rows)
           word == Strip(Lower(row.lemma))
       IN IF ~IntParses(row.rank) THEN CocaRanks(Tail(rows), ranks)   \* ValueError: continue
          ELSE LET rank == IntValue(row.rank) IN
               IF word # <<>> /\ rank > 0
                    /\ (word \notin DOMAIN ranks \/ rank < ranks[word])
                 THEN CocaRanks(Tail(rows), Put(ranks, word, rank))
                 ELSE CocaRanks(Tail(rows), ranks)

\* the loop of lines 245-249 over the rows of the level query
RECURSIVE CefrData(_, _)
CefrData(rows, data) ==
  IF rows = <<>> THEN data
  ELSE LET row == Head(rows)
           word == Strip(Lower(row.word))
       IN IF word # <<>> /\ row.level[1] # 0
            THEN CefrData(Tail(rows), Put(data, word, row.level))
            ELSE CefrData(Tail(rows), data)

\* lines 273-282 for one cell of the headword column
GaokaoWord(cell) ==
  LET stripped == Strip(cell)
      cleaned == SelectSeq(stripped, LAMBDA c : c # NBSP)
      main == IF "(" \in Range(cleaned) THEN Strip(Split(cleaned, "(")[1]) ELSE cleaned
  IN Lower(main)

\* the loop of lines 272-282 over the cells of the headword column
GaokaoWords(cells, set) ==
  set \cup {GaokaoWord(cells[i]) : i \in {j \in DOMAIN cells :
                                           cells[j] # <<>> /\ GaokaoWord(cells[j]) # <<>>}}

---------------------------------------------------------------------------
(* Enrichment steps. *)

\* wn.synsets(word): the parts of speech of the senses WordNet lists
WordNetSynsets(word) ==
  CASE word = S_take -> << <<"v">>, <<"n">>, <<"v">> >>
    [] word = S_zeal -> << <<"n">> >>
    [] OTHER -> <<>>

\* _get_pos_from_wordnet, lines 394-416
GetPosFromWordnet(word, available) ==
  IF ~available THEN <<>>
  ELSE LET synsets == WordNetSynsets(word)
           std(i) == PosStandardGet(synsets[i])
           counted == {i \in DOMAIN synsets : std(i) # <<>> /\ std(i) # S_unknown}
           first == {i \in counted : \A j \in counted : std(j) = std(i) => i <= j}
           firstSeq == SelectSeq([i \in DOMAIN synsets |-> i], LAMBDA i : i \in first)
           pos_count == [k \in DOMAIN firstSeq |->
                           [pos |-> std(firstSeq[k]),
                            freq |-> Cardinality({j \in counted : std(j) = std(firstSeq[k])})]]
           sorted_pos == SortByFreqDesc(pos_count)
       IN Join([k \in DOMAIN sorted_pos |-> sorted_pos[k].pos], ",")

\* data_sources += ",name" unless name is in it already
AddSource(data_sources, name) ==
  IF Contains(data_sources, name) THEN data_sources
  ELSE data_sources \o <<",">> \o name

\* the body of the loop of enrich_with_pos, lines 425-440, for one entry
EnrichPosEntry(word, entry, available) ==
  LET normalized == IF entry.pos # <<>> THEN NormalizePos(entry.pos) ELSE entry.pos
      wordnet_pos == GetPosFromWordnet(word, available)
  IN IF normalized = <<>> /\ available /\ wordnet_pos # <<>>
       THEN [entry EXCEPT !.pos = wordnet_pos,
                          !.data_sources = AddSource(@, S_wordnet)]
       ELSE [entry EXCEPT !.pos = normalized]

\* enrich_with_pos raises when _normalize_pos does
EnrichWithPosRaises(table) ==
  \E w \in DOMAIN table : table[w].pos # <<>> /\ NormalizePosRaises(table[w].pos)

EnrichWithPos(table, available) ==
  [w \in DOMAIN table |-> EnrichPosEntry(w, table[w], available)]

\* the override applied only when it lowers the rank
EnrichWithCocaBetterOfTwo(table, ranks) ==
  [w \in DOMAIN table |->
     IF w \in DOMAIN ranks /\ (table[w].coca_rank = 0 \/ ranks[w] < table[w].coca_rank)
       THEN [table[w] EXCEPT !.coca_rank = ranks[w],
                             !.data_sources = AddSource(@, S_coca)]
       ELSE table[w]]

\* WordEntry(word=word): the defaults of the dataclass, lines 114-143
NewWordEntry(word) ==
  [ word |-> word, pos |-> <<>>, cefr_level |-> <<>>,
    collins_star |-> 0, coca_rank |-> 0, bnc_rank |-> 0,
    is_oxford_3000 |-> FALSE,
    is_cet4 |-> FALSE, is_cet6 |-> FALSE, is_zk |-> FALSE, is_gk |-> FALSE,
    is_ky |-> FALSE, is_toefl |-> FALSE, is_ielts |-> FALSE, is_gre |-> FALSE,
    data_sources |-> <<>> ]

\* the override creating an entry for a form the table does not hold
EnrichWithCocaCreating(table, ranks) ==
  [w \in DOMAIN table \cup DOMAIN ranks |->
     IF w \in DOMAIN ranks
       THEN [(IF w \in DOMAIN table THEN table[w] ELSE NewWordEntry(w))
               EXCEPT !.coca_rank = ranks[w],
                      !.data_sources = AddSource(@, S_coca)]
       ELSE table[w]]

\* the override applied only to an entry the dictionary gave no rank
EnrichWithCocaFillOnly(table, ranks) ==
  [w \in DOMAIN table |->
     IF w \in DOMAIN ranks /\ table[w].coca_rank = 0
       THEN [table[w] EXCEPT !.coca_rank = ranks[w],
                             !.data_sources = AddSource(@, S_coca)]
       ELSE table[w]]

\* the override writing the table's rank into the secondary rank as well
EnrichWithCocaIntoBnc(table, ranks) ==
  [w \in DOMAIN table |->
     IF w \in DOMAIN ranks
       THEN [table[w] EXCEPT !.coca_rank = ranks[w],
                             !.bnc_rank = ranks[w],
                             !.data_sources = AddSource(@, S_coca)]
       ELSE table[w]]

\* enrich_with_coca, lines 450-456
EnrichWithCoca(table, ranks) ==
  [w \in DOMAIN table |->
     IF w \in DOMAIN ranks
       THEN [table[w] EXCEPT !.coca_rank = ranks[w],
                             !.data_sources = AddSource(@, S_coca)]
       ELSE table[w]]

\* enrich_with_cefr, lines 462-477
EnrichWithCefr(table, data) ==
  IF data = EmptyMap THEN table
  ELSE [w \in DOMAIN table |->
          IF w \in DOMAIN data /\ CefrFromFloat(data[w]) # <<>>
            THEN [table[w] EXCEPT !.cefr_level = CefrFromFloat(data[w]),
                                  !.data_sources = AddSource(@, S_cefr)]
            ELSE table[w]]

\* enrich_with_gaokao, lines 483-493
EnrichWithGaokao(table, set) ==
  IF set = {} THEN table
  ELSE [w \in DOMAIN table |->
          IF w \in set THEN [table[w] EXCEPT !.is_gk = TRUE] ELSE table[w]]

---------------------------------------------------------------------------
(* Inclusion filter and store writer. *)

COCA_THRESHOLD == 20000
BNC_THRESHOLD == 15000
COLLINS_MIN_STARS == 3

HasExamTag(entry) ==
  \/ entry.is_cet4 \/ entry.is_cet6 \/ entry.is_ky
  \/ entry.is_toefl \/ entry.is_ielts \/ entry.is_gre
  \/ entry.is_gk \/ entry.is_zk

\* the filter without its star-rating rule (lines 542-543 dropped)
ShouldIncludeNoStars(entry) ==
  IF entry.is_oxford_3000 THEN TRUE
  ELSE IF HasExamTag(entry) THEN TRUE
  ELSE IF entry.coca_rank # 0 /\ 0 < entry.coca_rank /\ entry.coca_rank <= COCA_THRESHOLD
    THEN TRUE
  ELSE IF entry.bnc_rank # 0 /\ 0 < entry.bnc_rank /\ entry.bnc_rank <= BNC_THRESHOLD
    THEN TRUE
  ELSE FALSE

\* _should_include, lines 520-545
ShouldInclude(entry) ==
  IF entry.is_oxford_3000 THEN TRUE
  ELSE IF HasExamTag(entry) THEN TRUE
  ELSE IF entry.coca_rank # 0 /\ 0 < entry.coca_rank /\ entry.coca_rank <= COCA_THRESHOLD
    THEN TRUE
  ELSE IF entry.bnc_rank # 0 /\ 0 < entry.bnc_rank /\ entry.bnc_rank <= BNC_THRESHOLD
    THEN TRUE
  ELSE IF entry.collins_star # 0 /\ entry.collins_star >= COLLINS_MIN_STARS THEN TRUE
  ELSE FALSE

\* filter_words, lines 551-583: the selected part of the table
FilterWords(table) ==
  [w \in {x \in DOMAIN table : ShouldInclude(table[x])} |-> table[w]]

\* int(bool)
BoolInt(b) == IF b THEN 1 ELSE 0

\* the tuple of the INSERT of lines 643-664
RowOfEntry(entry) ==
  [ word |-> entry.word,
    pos |-> entry.pos,
    cefr_level |-> entry.cefr_level,
    collins_star |-> entry.collins_star,
    coca_rank |-> entry.coca_rank,
    bnc_rank |-> entry.bnc_rank,
    is_oxford_3000 |-> BoolInt(entry.is_oxford_3000),
    is_cet4 |-> BoolInt(entry.is_cet4),
    is_cet6 |-> BoolInt(entry.is_cet6),
    is_zk |-> BoolInt(entry.is_zk),
    is_gk |-> BoolInt(entry.is_gk),
    is_ky |-> BoolInt(entry.is_ky),
    is_toefl |-> BoolInt(entry.is_toefl),
    is_ielts |-> BoolInt(entry.is_ielts),
    is_gre |-> BoolInt(entry.is_gre),
    data_sources |-> entry.data_sources ]

\* filtered.values() in an order: the rows to insert
RECURSIVE RowsOf(_)
RowsOf(filtered) ==
  IF DOMAIN filtered = {} THEN <<>>
  ELSE LET w == CHOOSE x \in DOMAIN filtered : TRUE
       IN <<RowOfEntry(filtered[w])>>
            \o RowsOf([x \in DOMAIN filtered \ {w} |-> filtered[x]])

\* the UNIQUE constraint on column word (line 600) rejects an INSERT
UniqueViolated(rows) ==
  \E i, j \in DOMAIN rows : i < j /\ rows[i].word = rows[j].word

---------------------------------------------------------------------------
(* The inputs the environment may hold: the state of each resource and the *)
(* rows it yields.                                                         *)

SourceStates == {"missing", "unreadable", "ok"}

CocaRowChoices ==
  { [lemma |-> S_take, rank |-> <<"5">>],
    [lemma |-> <<"T","a","k","e"," ">>, rank |-> <<"2","0","0","0","1">>],
    [lemma |-> S_zeal, rank |-> <<"7">>],
    [lemma |-> S_take, rank |-> <<"x">>],
    [lemma |-> S_ok, rank |-> <<"0">>],
    [lemma |-> S_zeal] }

CefrRowChoices ==
  { [word |-> S_take, level |-> <<22, 5>>],
    [word |-> <<" ","T","a","k","e">>, level |-> <<5, 2>>],
    [word |-> S_take, level |-> <<-1, 1>>],
    [word |-> S_take, level |-> <<0, 1>>],
    [word |-> S_zeal, level |-> <<7, 1>>] }

GaokaoCellChoices ==
  { S_take, <<"a","(","n",")">>, <<>> }

StardictRowChoices ==
  { [word |-> S_take, pos |-> <<"n",":","4","/","v",":","9","6">>,
     collins |-> 1, oxford |-> 0, tag |-> <<>>, bnc |-> 0, frq |-> 9000],
    [word |-> <<" ","T","a","k","e">>, pos |-> <<>>,
     collins |-> 3, oxford |-> 1, tag |-> <<"c","e","t","4"," ","g","k">>,
     bnc |-> 100, frq |-> 0],
    [word |-> S_ok, pos |-> <<"z","z",":","1">>,
     collins |-> 1, oxford |-> 0, tag |-> <<>>, bnc |-> 0, frq |-> 50000],
    [word |-> S_lol, pos |-> <<"n">>,
     collins |-> 5, oxford |-> 1, tag |-> <<>>, bnc |-> 10, frq |-> 10],
    [word |-> S_zeal, pos |-> <<"n">>,
     collins |-> 0, oxford |-> 0, tag |-> <<"g","r","e">>, bnc |-> 20000, frq |-> 3],
    [word |-> <<"O","x">>, pos |-> <<"a",":","1",":","2">>,
     collins |-> 0, oxford |-> 1, tag |-> <<>>, bnc |-> 0, frq |-> 0] }

---------------------------------------------------------------------------
(* VocabularyBuilder.run: one action per call of lines 693-705. *)

Abort(method) ==
  /\ pc' = "aborted"
  /\ error' = method

\* __init__, lines 194-199, and the module flags
Init ==
  /\ pc = "load_coca_frequency"
  /\ error = ""
  /\ XLRD_AVAILABLE \in BOOLEAN
  /\ WORDNET_AVAILABLE \in BOOLEAN
  /\ words = EmptyMap
  /\ coca_ranks = EmptyMap
  /\ cefr_data = EmptyMap
  /\ gaokao_words = {}
  /\ stardict_rows = <<>>
  /\ db = <<>>
  /\ arg = None
  /\ ret = None

LoadCocaFrequencyOn(state, rows) ==
  /\ IF state = "missing"                       \* line 206: return
       THEN /\ pc' = "load_cefr_database"
            /\ UNCHANGED <<error, coca_ranks>>
     ELSE IF state = "unreadable"               \* open or decoding raises
       THEN /\ Abort("load_coca_frequency")
            /\ UNCHANGED coca_ranks
     ELSE IF FirstRaisingRow(rows) # 0          \* line 215 raises TypeError
       THEN /\ coca_ranks' =
                 CocaRanks(SubSeq(rows, 1, FirstRaisingRow(rows) - 1), coca_ranks)
            /\ Abort("load_coca_frequency")
     ELSE /\ coca_ranks' = CocaRanks(rows, coca_ranks)
          /\ pc' = "load_cefr_database"
          /\ UNCHANGED error
  /\ UNCHANGED <<XLRD_AVAILABLE, WORDNET_AVAILABLE, words, cefr_data, gaokao_words,
                 stardict_rows, db, arg, ret>>

LoadCocaFrequency ==
  /\ pc = "load_coca_frequency"
  /\ \E state \in SourceStates, rows \in SeqUpTo(CocaRowChoices, MaxCocaRows) :
       /\ (state # "ok" => rows = <<>>)
       /\ LoadCocaFrequencyOn(state, rows)

LoadCefrDatabase ==
  /\ pc = "load_cefr_database"
  /\ \E state \in SourceStates, rows \in SeqUpTo(CefrRowChoices, MaxCefrRows) :
       IF state = "missing" THEN
         /\ rows = <<>>
         /\ pc' = "load_gaokao_vocabulary"
         /\ UNCHANGED <<error, cefr_data>>
       ELSE IF state = "unreadable" THEN
         \* cursor.execute raises sqlite3.DatabaseError, line 238; nothing catches it
         /\ rows = <<>>
         /\ Abort("load_cefr_database")
         /\ UNCHANGED cefr_data
       ELSE
         /\ cefr_data' = CefrData(rows, cefr_data)
         /\ pc' = "load_gaokao_vocabulary"
         /\ UNCHANGED error
  /\ UNCHANGED <<XLRD_AVAILABLE, WORDNET_AVAILABLE, words, coca_ranks, gaokao_words,
                 stardict_rows, db, arg, ret>>

LoadGaokaoVocabulary ==
  /\ pc = "load_gaokao_vocabulary"
  /\ \E state \in SourceStates, cells \in SeqUpTo(GaokaoCellChoices, MaxGaokaoRows) :
       IF ~XLRD_AVAILABLE \/ state = "missing" THEN
         /\ cells = <<>>
         /\ UNCHANGED gaokao_words
       ELSE IF state = "unreadable" THEN
         \* xlrd.open_workbook raises; the except of line 285 catches it
         /\ cells = <<>>
         /\ UNCHANGED gaokao_words
       ELSE
         /\ gaokao_words' = GaokaoWords(cells, gaokao_words)
  /\ pc' = "load_stardict"
  /\ UNCHANGED <<error, XLRD_AVAILABLE, WORDNET_AVAILABLE, words, coca_ranks, cefr_data,
                 stardict_rows, db, arg, ret>>

LoadStardict ==
  /\ pc = "load_stardict"
  /\ \E state \in SourceStates, rows \in SeqUpTo(StardictRowChoices, MaxDictRows) :
       IF state = "missing" THEN
         /\ rows = <<>>
         /\ pc' = "enrich_with_pos"
         /\ UNCHANGED <<error, words, stardict_rows>>
       ELSE IF state = "unreadable" THEN
         \* cursor.execute raises sqlite3.DatabaseError, line 301; nothing catches it
         /\ rows = <<>>
         /\ Abort("load_stardict")
         /\ UNCHANGED <<words, stardict_rows>>
       ELSE
         /\ stardict_rows' = rows
         /\ words' = StardictEntries(rows, words)
         /\ pc' = "enrich_with_pos"
         /\ UNCHANGED error
  /\ UNCHANGED <<XLRD_AVAILABLE, WORDNET_AVAILABLE, coca_ranks, cefr_data, gaokao_words,
                 db, arg, ret>>

EnrichWithPosStep ==
  /\ pc = "enrich_with_pos"
  /\ IF EnrichWithPosRaises(words)
       THEN /\ Abort("enrich_with_pos")
            /\ UNCHANGED words
       ELSE /\ words' = EnrichWithPos(words, WORDNET_AVAILABLE)
            /\ pc' = "enrich_with_coca"
            /\ UNCHANGED error
  /\ UNCHANGED <<XLRD_AVAILABLE, WORDNET_AVAILABLE, coca_ranks, cefr_data, gaokao_words,
                 stardict_rows, db, arg, ret>>

EnrichWithCocaStep ==
  /\ pc = "enrich_with_coca"
  /\ words' = EnrichWithCoca(words, coca_ranks)
  /\ pc' = "enrich_with_cefr"
  /\ UNCHANGED <<error, XLRD_AVAILABLE, WORDNET_AVAILABLE, coca_ranks, cefr_data,
                 gaokao_words, stardict_rows, db, arg, ret>>

EnrichWithCefrStep ==
  /\ pc = "enrich_with_cefr"
  /\ words' = EnrichWithCefr(words, cefr_data)
  /\ pc' = "enrich_with_gaokao"
  /\ UNCHANGED <<error, XLRD_AVAILABLE, WORDNET_AVAILABLE, coca_ranks, cefr_data,
                 gaokao_words, stardict_rows, db, arg, ret>>

EnrichWithGaokaoStep ==
  /\ pc = "enrich_with_gaokao"
  /\ words' = EnrichWithGaokao(words, gaokao_words)
  /\ pc' = "build_database"
  /\ UNCHANGED <<error, XLRD_AVAILABLE, WORDNET_AVAILABLE, coca_ranks, cefr_data,
                 gaokao_words, stardict_rows, db, arg, ret>>

\* build_database, lines 585-666: the store is replaced by the committed rows,
\* or an sqlite3 error (the file cannot be created or written, an INSERT
\* breaks the UNIQUE constraint) ends the run
BuildDatabase ==
  /\ pc = "build_database"
  /\ \E writable \in BOOLEAN :
       LET rows == RowsOf(FilterWords(words)) IN
       IF ~writable \/ UniqueViolated(rows)
         THEN /\ Abort("build_database")
              /\ UNCHANGED db
         ELSE /\ db' = rows
              /\ pc' = "done"
              /\ UNCHANGED error
  /\ UNCHANGED <<XLRD_AVAILABLE, WORDNET_AVAILABLE, words, coca_ranks, cefr_data,
                 gaokao_words, stardict_rows, arg, ret>>

Next ==
  \/ LoadCocaFrequency
  \/ LoadCefrDatabase
  \/ LoadGaokaoVocabulary
  \/ LoadStardict
  \/ EnrichWithPosStep
  \/ EnrichWithCocaStep
  \/ EnrichWithCefrStep
  \/ EnrichWithGaokaoStep
  \/ BuildDatabase

Spec == Init /\ [][Next]_vars

---------------------------------------------------------------------------
(* Functions and steps studied on their own: Init draws the argument (or   *)
(* the table the step runs on) from a bounded set, the action applies the  *)
(* function or is the step of the pipeline itself.                         *)

Idle ==
  /\ error = ""
  /\ XLRD_AVAILABLE = TRUE
  /\ coca_ranks = EmptyMap
  /\ gaokao_words = {}
  /\ stardict_rows = <<>>
  /\ db = <<>>
  /\ ret = None

\* words the validity filter is called on
ValidChars == {"a", "i", "o", "k", "x", "l", "A", "X", "1", "-", " "}

ExampleWords ==
  { <<"a","a","a">>, <<"1","2","3">>, S_lol, <<"x">>, <<"a">>, <<"i">>, S_ok,
    <<"r","e","s","i","l","i","e","n","c","e">> }

ValidWordInputs == SeqUpTo(ValidChars, MaxWordLen) \cup ExampleWords

InitValid ==
  /\ Idle
  /\ pc = "_is_valid_word"
  /\ arg \in ValidWordInputs
  /\ WORDNET_AVAILABLE = TRUE
  /\ words = EmptyMap
  /\ cefr_data = EmptyMap

CallIsValidWord ==
  /\ pc = "_is_valid_word"
  /\ ret' = IsValidWord(arg)
  /\ pc' = "returned"
  /\ UNCHANGED <<error, XLRD_AVAILABLE, WORDNET_AVAILABLE, words, coca_ranks, cefr_data,
                 gaokao_words, stardict_rows, db, arg>>

SpecValid == InitValid /\ [][CallIsValidWord]_vars

\* raw part-of-speech strings: parts joined by "/"
PosCodeChoices == { <<"a">>, <<"j">>, <<"t">>, <<"N">>, <<"u">>, <<"z","z">> }
PosFreqChoices == { <<"1">>, <<"9","9">> }

PosPartChoices ==
  {code \o <<":">> \o freq : code \in PosCodeChoices, freq \in PosFreqChoices}
    \cup { <<"n">>, <<"a",":","x">>, <<"a",":","1",":","2">> }

RawPosInputs ==
  {Join(parts, "/") : parts \in SeqUpTo(PosPartChoices, MaxPosParts)}
    \cup { <<"n","o","u","n">>, <<" ","A","d","j"," ">>, <<"x","y","z">>,
           <<"a","d","j",",","v">>, <<"u">> }

InitNormalizePos ==
  /\ Idle
  /\ pc = "_normalize_pos"
  /\ arg \in RawPosInputs
  /\ WORDNET_AVAILABLE = TRUE
  /\ words = EmptyMap
  /\ cefr_data = EmptyMap

CallNormalizePos ==
  /\ pc = "_normalize_pos"
  /\ IF arg # <<>> /\ NormalizePosRaises(arg)
       THEN /\ ret' = None
            /\ error' = "ValueError"
       ELSE /\ ret' = NormalizePos(arg)
            /\ UNCHANGED error
  /\ pc' = "returned"
  /\ UNCHANGED <<XLRD_AVAILABLE, WORDNET_AVAILABLE, words, coca_ranks, cefr_data,
                 gaokao_words, stardict_rows, db, arg>>

SpecNormalizePos == InitNormalizePos /\ [][CallNormalizePos]_vars

\* a table as load_stardict leaves it: one entry, built from a row
OneEntryTables(rows) ==
  {StardictEntries(<<row>>, EmptyMap) : row \in rows}

\* enrich_with_pos on a one-entry table
InitEnrichPos ==
  /\ Idle
  /\ pc = "enrich_with_pos"
  /\ arg = None
  /\ WORDNET_AVAILABLE \in BOOLEAN
  /\ words \in OneEntryTables([word : {S_take, S_zeal, S_ok}, pos : RawPosInputs,
                               collins : {0}, oxford : {0}, tag : {<<>>},
                               bnc : {0}, frq : {0}])
  /\ cefr_data = EmptyMap

SpecEnrichPos == InitEnrichPos /\ [][EnrichWithPosStep]_vars

\* enrich_with_cefr on a one-entry table, the level data as load_cefr_database
\* leaves it
LevelChoices ==
  UNION {{<<num, den>> : num \in (0 - den)..(7 * den)} : den \in 1..MaxLevelDen}

InitEnrichCefr ==
  /\ Idle
  /\ pc = "enrich_with_cefr"
  /\ arg = None
  /\ WORDNET_AVAILABLE = TRUE
  /\ words \in OneEntryTables([word : {S_take}, pos : {<<>>},
                               collins : {0}, oxford : {0}, tag : {<<>>},
                               bnc : {0}, frq : {0}])
  /\ \E row \in [word : {S_take, S_zeal}, level : LevelChoices] :
       cefr_data = CefrData(<<row>>, EmptyMap)

SpecEnrichCefr == InitEnrichCefr /\ [][EnrichWithCefrStep]_vars

\* filter_words on a one-entry table
EntryChoices ==
  [ word : {S_take}, pos : {<<>>}, cefr_level : {<<>>},
    collins_star : {0, 1, 2, 3, 5},
    coca_rank : {-1, 0, 1, 20000, 20001, 50000},
    bnc_rank : {-1, 0, 1, 15000, 15001},
    is_oxford_3000 : BOOLEAN,
    is_cet4 : BOOLEAN, is_cet6 : BOOLEAN, is_zk : BOOLEAN, is_gk : BOOLEAN,
    is_ky : BOOLEAN, is_toefl : BOOLEAN, is_ielts : BOOLEAN, is_gre : BOOLEAN,
    data_sources : {S_ecdict} ]

InitFilterWords ==
  /\ Idle
  /\ pc = "filter_words"
  /\ arg = None
  /\ WORDNET_AVAILABLE = TRUE
  /\ \E entry \in EntryChoices : words = Put(EmptyMap, entry.word, entry)
  /\ cefr_data = EmptyMap

CallFilterWords ==
  /\ pc = "filter_words"
  /\ ret' = FilterWords(words)
  /\ pc' = "returned"
  /\ UNCHANGED <<error, XLRD_AVAILABLE, WORDNET_AVAILABLE, words, coca_ranks, cefr_data,
                 gaokao_words, stardict_rows, db, arg>>

SpecFilterWords == InitFilterWords /\ [][CallFilterWords]_vars

---------------------------------------------------------------------------
(* Positions of run(). *)

RunOrder ==
  << "load_coca_frequency", "load_cefr_database", "load_gaokao_vocabulary",
     "load_stardict", "enrich_with_pos", "enrich_with_coca", "enrich_with_cefr",
     "enrich_with_gaokao", "build_database", "done" >>

StepIndex(step) == CHOOSE i \in DOMAIN RunOrder : RunOrder[i] = step

\* the call `step` of run() has returned (an aborted run stopped inside `error`)
Completed(step) ==
  StepIndex(step) < StepIndex(IF pc = "aborted" THEN error ELSE pc)

\* the dictionary row that supplied the entry of form w: the last one of that form
DictRowOf(w) ==
  LET hits == {i \in DOMAIN stardict_rows : RowWord(stardict_rows[i]) = w}
  IN stardict_rows[CHOOSE i \in hits : \A j \in hits : j <= i]

---------------------------------------------------------------------------
(* C1.  After enrich_with_coca, every entry whose form is in coca_ranks    *)
(* has coca_rank equal to the frequency-table rank, whatever the           *)
(* dictionary row supplied; every other entry keeps the dictionary's frq   *)
(* (0 when the row had none).                                              *)

C1_FrequencyOverride ==
  Completed("enrich_with_coca") =>
    \A w \in DOMAIN words :
      words[w].coca_rank =
        IF w \in DOMAIN coca_ranks THEN coca_ranks[w] ELSE DictRowOf(w).frq

\* the override has replaced a better (smaller) dictionary rank by a larger one
C1_Witness ==
  /\ Completed("enrich_with_coca")
  /\ \E w \in DOMAIN words \cap DOMAIN coca_ranks :
       /\ DictRowOf(w).frq > 0
       /\ coca_ranks[w] > DictRowOf(w).frq
       /\ words[w].coca_rank = coca_ranks[w]

---------------------------------------------------------------------------
(* C2.  filter_words selects an entry if and only if it is core, or has an *)
(* exam tag, or 0 < coca_rank <= 20000, or 0 < bnc_rank <= 15000, or has   *)
(* 3 stars or more.  An entry with 3 stars and nothing else is selected;   *)
(* one with 1 star, no tag, not core and coca_rank 50000 is not.           *)

C2_InclusionRule ==
  pc = "returned" =>
    \A w \in DOMAIN words :
      LET e == words[w]
          tagged == \E b \in {e.is_cet4, e.is_cet6, e.is_zk, e.is_gk,
                              e.is_ky, e.is_toefl, e.is_ielts, e.is_gre} : b
          nothingElse == ~e.is_oxford_3000 /\ ~tagged /\ e.bnc_rank = 0
      IN /\ (w \in DOMAIN ret) <=>
              \/ e.is_oxford_3000
              \/ tagged
              \/ (0 < e.coca_rank /\ e.coca_rank <= 20000)
              \/ (0 < e.bnc_rank /\ e.bnc_rank <= 15000)
              \/ e.collins_star >= 3
         /\ w \in DOMAIN ret => ret[w] = e
         /\ (nothingElse /\ e.collins_star = 3 /\ e.coca_rank = 0) => w \in DOMAIN ret
         /\ (nothingElse /\ e.collins_star = 1 /\ e.coca_rank = 50000) => w \notin DOMAIN ret

\* an entry selected by its three stars alone
C2_Witness ==
  /\ pc = "returned"
  /\ \E w \in DOMAIN ret :
       /\ ret[w].collins_star = 3
       /\ ~ret[w].is_oxford_3000 /\ ~HasExamTag(ret[w])
       /\ ret[w].coca_rank = 0 /\ ret[w].bnc_rank = 0

---------------------------------------------------------------------------
(* C3.  enrich_with_cefr sets cefr_level, for every entry whose form is in *)
(* cefr_data, to the band (1 -> A1 .. 6 -> C2) of the level rounded to a   *)
(* nearest integer; when the level is not positive or the rounded value is *)
(* outside 1..6 the entry's cefr_level is what it was.  4.4 gives B2.      *)

C3_Band(r) ==
  CASE r = 1 -> <<"A","1">> [] r = 2 -> <<"A","2">> [] r = 3 -> <<"B","1">>
    [] r = 4 -> <<"B","2">> [] r = 5 -> <<"C","1">> [] r = 6 -> <<"C","2">>

---------------------------------------------------------------------------
(* C4.  _is_valid_word, matching case-insensitively, rejects a form that   *)
(* is a stop word, or one character other than "a" and "i", or two         *)
(* characters not in the two-letter allow-list, or all digits, or without  *)
(* any letter, or holding a digit, or one character repeated; it accepts   *)
(* every other form.  It rejects "aaa", "123", "lol", "x" and accepts "a", *)
(* "i", "ok", "resilience".                                                *)

C4_ValidityFilter ==
  pc = "returned" =>
    LET w == Lower(arg)
        n == Len(arg)
        allDigits == n > 0 /\ \A i \in 1..n : w[i] \in Digits
        noLetters == n > 0 /\ \A i \in 1..n : w[i] \notin Letters
        anyDigit == \E i \in 1..n : w[i] \in Digits
        repeated == n >= 2 /\ \A i \in 1..n : w[i] = w[1]
        rejected ==
          \/ w \in STOPWORDS
          \/ (n = 1 /\ w \notin {<<"a">>, <<"i">>})
          \/ (n = 2 /\ w \notin ALLOWED_TWO_LETTERS)
          \/ allDigits \/ noLetters \/ anyDigit \/ repeated
    IN /\ ret = ~rejected
       /\ arg \in {<<"a","a","a">>, <<"1","2","3">>, <<"l","o","l">>, <<"x">>} => ret = FALSE
       /\ arg \in {<<"a">>, <<"i">>, <<"o","k">>,
                   <<"r","e","s","i","l","i","e","n","c","e">>} => ret = TRUE

\* a stop word written in upper and lower case has been rejected
C4_Witness ==
  /\ pc = "returned"
  /\ arg = <<"X","x","X">>
  /\ ret = FALSE

---------------------------------------------------------------------------
(* C5.  For a raw string of slash-separated code:frequency parts,          *)
(* _normalize_pos returns tags without a duplicate, none of them "unknown" *)
(* or an unmapped code, exactly the tags the codes map to, in descending   *)
(* order of frequency, a tag standing where its highest frequency puts it. *)

C5_NormalizedOrder ==
  (pc = "returned" /\ error = "" /\ ":" \in Range(arg)) =>
    LET tags == IF ret = <<>> THEN <<>> ELSE Split(ret, ",")
        pairs == PosFreq(Split(arg, "/"))
        canonical == {POS_STANDARD[c] : c \in DOMAIN POS_STANDARD} \ {S_unknown}
        best(t) == CHOOSE f \in {pairs[i].freq : i \in {j \in DOMAIN pairs : pairs[j].pos = t}} :
                     \A i \in DOMAIN pairs : pairs[i].pos = t => pairs[i].freq <= f
    IN /\ \A i, j \in DOMAIN tags : i # j => tags[i] # tags[j]
       /\ \A i \in DOMAIN tags : tags[i] \in canonical
       /\ Range(tags) = {pairs[i].pos : i \in DOMAIN pairs}
       /\ \A i, j \in DOMAIN tags : i < j => best(tags[i]) >= best(tags[j])

\* two codes of one tag and a more frequent other tag: "a:1/t:99/j:99" gives "v,adj"
C5_Witness ==
  /\ pc = "returned"
  /\ arg = <<"a",":","1","/","t",":","9","9","/","j",":","9","9">>
  /\ ret = <<"v",",","a","d","j">>

---------------------------------------------------------------------------
(* C6.  As claimed: a second run of enrich_with_pos leaves the pos of      *)
(* every entry as the first run left it, also when it holds two tags or    *)
(* more.                                                                   *)

C6_Idempotent ==
  pc = "enrich_with_coca" =>
    \A w \in DOMAIN words :
      EnrichWithPos(words, WORDNET_AVAILABLE)[w].pos = words[w].pos

(* C6, amended.  A second run of enrich_with_pos leaves the pos of every   *)
(* entry whose pos after the first run holds at most one tag as it is.     *)

C6_IdempotentOnSingleTag ==
  pc = "enrich_with_coca" =>
    \A w \in DOMAIN words :
      "," \notin Range(words[w].pos) =>
        EnrichWithPos(words, WORDNET_AVAILABLE)[w].pos = words[w].pos

\* the first run has normalized a raw "a:99" to the single tag "adj"
C6_Witness ==
  /\ pc = "enrich_with_coca"
  /\ \E w \in DOMAIN words :
       /\ words[w].pos = <<"a","d","j">>
       /\ EnrichWithPos(words, WORDNET_AVAILABLE)[w].pos = <<"a","d","j">>

---------------------------------------------------------------------------
(* C7.  Every enrichment step that has changed a field of an entry (the    *)
(* WordNet fallback, the frequency override, the CEFR injection, the       *)
(* curated-wordlist tagging) has put its own identifier into the entry's   *)
(* data_sources, where it occurs exactly once.                             *)

C7_ProvenanceOfEveryStep ==
  \A w \in DOMAIN words :
    LET e == words[w]
        row == DictRowOf(w)
        once(name) == Occurrences(e.data_sources, name) = 1
    IN /\ Completed("enrich_with_pos") =>
            (e.pos # <<>> /\ (row.pos = <<>> \/ NormalizePos(row.pos) = <<>>)
               => once(S_wordnet))
       /\ Completed("enrich_with_coca") =>
            (w \in DOMAIN coca_ranks => once(S_coca))
       /\ Completed("enrich_with_cefr") =>
            (e.cefr_level # <<>> => once(S_cefr))
       /\ Completed("enrich_with_gaokao") =>
            (e.is_gk /\ S_tag("gk") \notin SplitWhitespace(row.tag) => once(S_gaokao))

---------------------------------------------------------------------------
(* C8.  No failure of a source adapter ends the run: whatever state its    *)
(* resource is in, the run goes on to the next step.                       *)

C8_AdapterFailureNotTerminal ==
  error \notin {"load_coca_frequency", "load_cefr_database",
                "load_gaokao_vocabulary", "load_stardict"}

---------------------------------------------------------------------------
(* C9.  After a successful run the store holds one row for every entry the *)
(* inclusion filter accepts and none for any other; every stored form is   *)
(* non-empty, lower-case and trimmed, and no two rows share a form.        *)

C9_StoreRows ==
  pc = "done" =>
    /\ \A w \in DOMAIN words :
         Cardinality({i \in DOMAIN db : db[i].word = w})
           = IF ShouldInclude(words[w]) THEN 1 ELSE 0
    /\ \A i \in DOMAIN db :
         /\ db[i].word \in DOMAIN words
         /\ db[i].word # <<>>
         /\ \A k \in DOMAIN db[i].word : db[i].word[k] \notin UpperLetters
         /\ db[i].word[1] \notin Whitespace
         /\ db[i].word[Len(db[i].word)] \notin Whitespace
    /\ \A i, j \in DOMAIN db : i # j => db[i].word # db[j].word

\* two dictionary rows that differ in case and whitespace only, stored as one row
C9_Witness ==
  /\ pc = "done"
  /\ \E i, j \in DOMAIN stardict_rows :
       /\ stardict_rows[i].word # stardict_rows[j].word
       /\ RowWord(stardict_rows[i]) = RowWord(stardict_rows[j])
       /\ \E k \in DOMAIN db : db[k].word = RowWord(stardict_rows[i])

---------------------------------------------------------------------------
(* C10.  As claimed: once the adapters have run, the entry table holds an  *)
(* entry for every form any of the four adapters yielded.                  *)

C10_EntryForEveryAdapterForm ==
  Completed("load_stardict") =>
    \A f \in DOMAIN coca_ranks \cup DOMAIN cefr_data \cup gaokao_words :
      f \in DOMAIN words

(* C10, amended.  The entry table holds an entry exactly for the forms of  *)
(* the dictionary rows that are non-empty and pass the validity filter;    *)
(* the other three adapters never create an entry.                         *)

C10_EntriesFromDictionaryOnly ==
  DOMAIN words =
    {RowWord(stardict_rows[i]) : i \in {j \in DOMAIN stardict_rows :
        RowWord(stardict_rows[j]) # <<>> /\ IsValidWord(RowWord(stardict_rows[j]))}}

\* a form the frequency table yielded has no entry, while the table is not empty
C10_Witness ==
  /\ Completed("enrich_with_coca")
  /\ DOMAIN words # {}
  /\ \E f \in DOMAIN coca_ranks : f \notin DOMAIN words

---------------------------------------------------------------------------
\* the four enrichment calls of run, lines 699-702
EnrichmentSteps ==
  {"enrich_with_pos", "enrich_with_coca", "enrich_with_cefr", "enrich_with_gaokao"}

\* a step of an enrichment call leaves no known coca_rank larger than it was
RankNotRaised ==
  pc \in EnrichmentSteps =>
    \A w \in DOMAIN words :
      words[w].coca_rank # 0 => (words'[w].coca_rank <= words[w].coca_rank)

(* C11.  As claimed: no enrichment step degrades frequencyRankPrimary; if  *)
(* an entry had a known (non-zero) coca_rank before the step, its          *)
(* coca_rank after the step is less than or equal to the one before.       *)
C11_RankNeverDegraded == [][RankNotRaised]_vars

\* a step of an enrichment call sets coca_rank from the table or keeps it
RankOverriddenOrKept ==
  pc \in EnrichmentSteps =>
    \A w \in DOMAIN words :
      words'[w].coca_rank =
        (IF pc = "enrich_with_coca" /\ w \in DOMAIN coca_ranks
           THEN coca_ranks[w]
           ELSE words[w].coca_rank)

(* C11, amended.  The frequency override sets the coca_rank of every entry *)
(* whose form is in coca_ranks to the table's rank, be it smaller or       *)
(* larger than the known one; every other enrichment step, and the         *)
(* override on every other entry, leaves coca_rank as it was.              *)
C11_RankOverriddenOrKept == [][RankOverriddenOrKept]_vars

\* the store holds a rank larger than the known one the dictionary gave
C11_Witness ==
  /\ pc = "done"
  /\ \E i \in DOMAIN db :
       /\ DictRowOf(db[i].word).frq > 0
       /\ db[i].coca_rank > DictRowOf(db[i].word).frq
       /\ db[i].word \in DOMAIN coca_ranks

---------------------------------------------------------------------------
(* load_coca_frequency on its own: the state of the file and its rows are  *)
(* held in arg, the action is the whole call.                              *)

CocaFileChoices ==
  [state : SourceStates \ {"ok"}, rows : {<<>>}]
    \cup [state : {"ok"}, rows : SeqUpTo(CocaRowChoices, MaxCocaRows)]

InitLoadCoca ==
  /\ Idle
  /\ pc = "load_coca_frequency"
  /\ arg \in CocaFileChoices
  /\ WORDNET_AVAILABLE = TRUE
  /\ words = EmptyMap
  /\ cefr_data = EmptyMap

CallLoadCocaFrequency ==
  /\ pc = "load_coca_frequency"
  /\ LoadCocaFrequencyOn(arg.state, arg.rows)

SpecLoadCoca == InitLoadCoca /\ [][CallLoadCocaFrequency]_vars

\* the case-folded, stripped lemma of a row
FoldedLemma(row) == Strip(Lower(row.lemma))

\* the rows whose rank is a positive integer and whose folded lemma is not empty
RankedRows(rows) ==
  {i \in DOMAIN rows :
     /\ "rank" \in DOMAIN rows[i]
     /\ IntParses(rows[i].rank)
     /\ IntValue(rows[i].rank) > 0
     /\ FoldedLemma(rows[i]) # <<>>}

\* for each lemma of a ranked row, the least of its ranks
MinimumRanks(rows) ==
  [l \in {FoldedLemma(rows[i]) : i \in RankedRows(rows)} |->
     CHOOSE r \in {IntValue(rows[i].rank) : i \in RankedRows(rows)} :
       /\ \E i \in RankedRows(rows) :
            FoldedLemma(rows[i]) = l /\ IntValue(rows[i].rank) = r
       /\ \A i \in RankedRows(rows) :
            FoldedLemma(rows[i]) = l => r <= IntValue(rows[i].rank)]

(* C12.  After load_coca_frequency has read any sequence of rows, the rank *)
(* recorded for each non-empty case-folded lemma is the minimum of the     *)
(* positive integer ranks among its rows; a row whose rank is not numeric  *)
(* or not positive changes no recorded rank and does not stop the rows     *)
(* after it from being read, so the call returns and nothing is raised.    *)
C12_MinimumRankOfEveryRow ==
  (pc # "load_coca_frequency" /\ arg.state = "ok") =>
    /\ pc # "aborted"
    /\ coca_ranks = MinimumRanks(arg.rows)

---------------------------------------------------------------------------
(* The enrichment methods are public: a caller other than run may call     *)
(* them on the loaded table in any order and any number of times before    *)
(* build_database.  Reschedule is that caller's choice of the next call.   *)

Reschedule ==
  /\ pc \in EnrichmentSteps \cup {"build_database"}
  /\ pc' \in (EnrichmentSteps \cup {"build_database"}) \ {pc}
  /\ UNCHANGED <<error, XLRD_AVAILABLE, WORDNET_AVAILABLE, words, coca_ranks, cefr_data,
                 gaokao_words, stardict_rows, db, arg, ret>>

NextAnyOrder == Next \/ Reschedule

SpecAnyOrder == Init /\ [][NextAnyOrder]_vars

(* C13.  No enrichment step, run in any order and any number of times,     *)
(* changes bnc_rank: every entry of the table holds the bnc of the         *)
(* dictionary row that supplied it (0 when the row had none), and so does  *)
(* every row of the output store.                                          *)
C13_BncRankFromDictionary ==
  /\ \A w \in DOMAIN words : words[w].bnc_rank = DictRowOf(w).bnc
  /\ \A i \in DOMAIN db : db[i].bnc_rank = DictRowOf(db[i].word).bnc

\* a stored row with a secondary rank, enriched by the override before the
\* part-of-speech step, the reverse of run's order
C13_Witness ==
  /\ pc = "done"
  /\ \E i \in DOMAIN db :
       /\ db[i].bnc_rank # 0
       /\ db[i].coca_rank # DictRowOf(db[i].word).frq
       /\ db[i].data_sources =
            S_ecdict \o <<",">> \o S_coca \o <<",">> \o S_wordnet

====
